---- MODULE Spec2Model ----
(***************************************************************************)
(* A model of src/helper/schema/provider.go: the schema.Provider           *)
(* dispatcher, and the helpers of the aws, heroku and config packages that *)
(* the same file carries.                                                  *)
(*                                                                         *)
(* Strings whose bytes matter (resource type names, provider configuration *)
(* names) are sequences of byte values, so that Go's string order, prefix  *)
(* test and length are computed and not assumed.                           *)
(***************************************************************************)
EXTENDS Integers, Sequences, FiniteSets, Bags, TLC

VARIABLES
    Schema,            \* Provider.Schema: the provider-level schema map
    ResourcesMap,      \* Provider.ResourcesMap: type name -> Resource
    ConfigureFunc,     \* Provider.ConfigureFunc: "nil" or "set"
    meta,              \* Provider.meta
    last,              \* the last call on the provider and what it returned
    configureCalled,   \* history: Configure has been called at least once
    metaWrites,        \* history: how often p.meta has been assigned:
                       \* "never", "once" or "more"
    pcn,               \* a call of config.ProviderConfigName: its arguments
                       \* and, once it has returned, its result
    config,            \* a config.Config
    validated,         \* what Validate returned for config, once called
    d,                 \* the schema.ResourceData handed to a Heroku callback
    hk,                \* the Heroku callback that ran on d: the calls it
                       \* made on the Heroku client and its error
    perms,             \* calls of aws.canonicaliseIPPerms: the rules given
                       \* and what the calls so far returned
    listeners          \* a call of aws.expandListeners: the configured
                       \* listeners and, once it has returned, its results

provVars == <<Schema, ResourcesMap, ConfigureFunc, meta, last,
              configureCalled, metaWrites>>

configVars == <<pcn, config, validated>>

herokuVars == <<d, hk>>

awsVars == <<perms, listeners>>

vars == <<provVars, configVars, herokuVars, awsVars>>

\* The value of the variables of a package that a specification leaves out.
Unused == "unused"

----------------------------------------------------------------------------
(* Bounds and sample data *)

\* The largest number of entries of a ResourcesMap.
MaxResources == 2

\* Go's nil, for interface values, pointers, slices and errors.
Nil == "nil"

\* Resource type names the callers use, as byte strings: "a", "ab", "b", "ba".
TypeNames == {<<1>>, <<1, 2>>, <<2>>, <<2, 1>>}

\* Values a ConfigureFunc returns or a caller hands to SetMeta.
MetaValues == {Nil, "m1", "m2"}

\* The empty Go string.
Empty == <<>>

----------------------------------------------------------------------------
(* Go strings *)

\* a < b for Go strings: bytewise lexicographic order.
RECURSIVE StrLess(_, _)
StrLess(a, b) ==
    IF b = <<>> THEN FALSE
    ELSE IF a = <<>> THEN TRUE
    ELSE IF Head(a) < Head(b) THEN TRUE
    ELSE IF Head(a) > Head(b) THEN FALSE
    ELSE StrLess(Tail(a), Tail(b))

\* strings.HasPrefix(s, prefix)
HasPrefix(s, prefix) ==
    /\ Len(s) >= Len(prefix)
    /\ SubSeq(s, 1, Len(prefix)) = prefix

\* Insertion of one string into a sorted list, before the first greater one.
RECURSIVE InsertSorted(_, _)
InsertSorted(x, s) ==
    IF s = <<>> THEN <<x>>
    ELSE IF StrLess(x, Head(s)) THEN <<x>> \o s
    ELSE <<Head(s)>> \o InsertSorted(x, Tail(s))

\* sort.Strings(keys): the list in increasing order.
RECURSIVE SortStrings(_)
SortStrings(keys) ==
    IF keys = <<>> THEN <<>>
    ELSE InsertSorted(Head(keys), SortStrings(Tail(keys)))

\* The orders in which a range over a Go map may visit the keys in S:
\* every sequence holding each key once.
IterationOrders(S) ==
    {o \in [1..Cardinality(S) -> S] : \A i, j \in 1..Cardinality(S) :
                                          i # j => o[i] # o[j]}

----------------------------------------------------------------------------
(* schema.Provider *)

\* A Go error value: what went wrong and the name it is about; NoError is
\* the nil error.
Error(kind, subject) == [kind |-> kind, subject |-> subject]

NoError == Error("nil", Empty)

\* One invocation made below the provider: fn is the function called, key
\* the resource type it was called on (Empty for the provider's own schema
\* map and for ConfigureFunc), arg the meta value handed over (Nil when the
\* function takes none) and ret what it returned.
Call(fn, key, arg, ret) == [fn |-> fn, key |-> key, arg |-> arg, ret |-> ret]

\* What a call on the provider did: the operation, whether its receiver was
\* a nil *Provider, its resource type argument, the values returned, the
\* invocations made below the provider in order, and the assignment made to
\* p.meta: <<v>> for "p.meta = v", <<>> when the call assigns nothing.
Outcome(op, recvNil, t, out, err, calls, assign) ==
    [op |-> op, recvNil |-> recvNil, t |-> t, out |-> out, err |-> err,
     calls |-> calls, assign |-> assign]

\* What a Resource method (Apply, Diff, Refresh, Validate) or the schema
\* map's Validate may return: a result and an error (a failed Apply returns
\* the partially applied state with its error).
ResourceReturns == {[out |-> "r1", err |-> NoError],
                    [out |-> "r2", err |-> Error("resource error", Empty)]}

\* What a ConfigureFunc may return: a meta value and an error.
ConfigureReturns ==
    [out : MetaValues, err : {NoError, Error("configure error", Empty)}]

\* p.meta after a call with outcome o.
MetaAfter(o) == IF o.assign = <<>> THEN meta ELSE o.assign[1]

\* The history of assignments to p.meta after one more call.
WritesAfter(o) ==
    IF o.assign = <<>> THEN metaWrites
    ELSE IF metaWrites = "never" THEN "once" ELSE "more"

\* A provider as constructed: Schema and ResourcesMap as the provider author
\* declared them (valid says whether the declaration passes its own
\* InternalValidate), meta not yet set.
Init ==
    /\ Schema \in [valid : BOOLEAN]
    /\ \E keys \in SUBSET TypeNames :
          /\ Cardinality(keys) <= MaxResources
          /\ ResourcesMap \in [keys -> [valid : BOOLEAN]]
    /\ ConfigureFunc \in {"nil", "set"}
    /\ meta = Nil
    /\ last = Outcome("new", FALSE, Empty, Nil, NoError, <<>>, <<>>)
    /\ configureCalled = FALSE
    /\ metaWrites = "never"
    /\ pcn = Unused /\ config = Unused /\ validated = Unused
    /\ d = Unused /\ hk = Unused
    /\ perms = Unused /\ listeners = Unused

\* A call on the provider returns with outcome o. No method of the file
\* assigns p.Schema, p.ResourcesMap or p.ConfigureFunc.
Return(o) ==
    /\ last' = o
    /\ meta' = MetaAfter(o)
    /\ metaWrites' = WritesAfter(o)
    /\ configureCalled' = (configureCalled \/ o.op = "Configure")
    /\ UNCHANGED <<Schema, ResourcesMap, ConfigureFunc>>
    /\ UNCHANGED <<configVars, herokuVars, awsVars>>

\* func (p *Provider) Meta() interface{}
MetaOutcome == Outcome("Meta", FALSE, Empty, meta, NoError, <<>>, <<>>)

Meta == Return(MetaOutcome)

\* A SetMeta that ignores a nil value.
SetMetaOutcomeNonNil(v) ==
    Outcome("SetMeta", FALSE, Empty, Nil, NoError, <<>>,
            IF v = Nil THEN <<>> ELSE <<v>>)

\* func (p *Provider) SetMeta(v interface{})
SetMetaOutcome(v) ==
    Outcome("SetMeta", FALSE, Empty, Nil, NoError, <<>>, <<v>>)

SetMeta(v) == Return(SetMetaOutcome(v))

\* func (p *Provider) Validate(c): the answer of the provider schema map.
ValidateOutcome(ret) ==
    Outcome("Validate", FALSE, Empty, ret.out, ret.err,
            <<Call("schemaMap.Validate", Empty, Nil, ret)>>, <<>>)

Validate(ret) == Return(ValidateOutcome(ret))

\* func (p *Provider) ValidateResource(t, c): ret is what the resource's
\* Validate returns when it is called.
ValidateResourceOutcome(t, ret) ==
    IF t \notin DOMAIN ResourcesMap
    THEN Outcome("ValidateResource", FALSE, t, Nil,
                 Error("Provider doesn't support resource", t), <<>>, <<>>)
    ELSE Outcome("ValidateResource", FALSE, t, ret.out, ret.err,
                 <<Call("Resource.Validate", t, Nil, ret)>>, <<>>)

ValidateResource(t, ret) == Return(ValidateResourceOutcome(t, ret))

\* The invocations Configure makes, in order: diffOk and dataOk say whether
\* sm.Diff and sm.Data succeed, cf is what ConfigureFunc returns. Each is
\* made only if the one before it returned no error, and none without a
\* ConfigureFunc.
ConfigureCalls(diffOk, dataOk, cf) ==
    LET ret(ok, v, e) == [out |-> IF ok THEN v ELSE Nil,
                          err |-> IF ok THEN NoError ELSE Error(e, Empty)]
        diffCall == Call("schemaMap.Diff", Empty, Nil,
                         ret(diffOk, "diff", "diff error"))
        dataCall == Call("schemaMap.Data", Empty, Nil,
                         ret(dataOk, "data", "data error"))
        cfCall == Call("ConfigureFunc", Empty, Nil, cf)
    IN  IF ConfigureFunc = "nil" THEN <<>>
        ELSE IF ~diffOk THEN <<diffCall>>
        ELSE IF ~dataOk THEN <<diffCall, dataCall>>
        ELSE <<diffCall, dataCall, cfCall>>

\* A Configure that keeps a meta value already stored.
ConfigureOutcomeKeep(diffOk, dataOk, cf) ==
    LET calls == ConfigureCalls(diffOk, dataOk, cf)
        err == IF calls = <<>> THEN NoError ELSE calls[Len(calls)].ret.err
    IN  Outcome("Configure", FALSE, Empty, Nil, err, calls,
                IF calls = <<>> \/ err # NoError \/ meta # Nil THEN <<>>
                ELSE <<cf.out>>)

\* A Configure that stores what ConfigureFunc returned before it looks at
\* the error.
ConfigureOutcomeEager(diffOk, dataOk, cf) ==
    LET calls == ConfigureCalls(diffOk, dataOk, cf)
        err == IF calls = <<>> THEN NoError ELSE calls[Len(calls)].ret.err
    IN  Outcome("Configure", FALSE, Empty, Nil, err, calls,
                IF Len(calls) < 3 THEN <<>> ELSE <<cf.out>>)

\* func (p *Provider) Configure(c): the error of the first invocation that
\* failed, without a write to p.meta; and "p.meta = meta" once ConfigureFunc
\* has returned no error.
ConfigureOutcome(diffOk, dataOk, cf) ==
    LET calls == ConfigureCalls(diffOk, dataOk, cf)
        err == IF calls = <<>> THEN NoError ELSE calls[Len(calls)].ret.err
    IN  Outcome("Configure", FALSE, Empty, Nil, err, calls,
                IF calls = <<>> \/ err # NoError THEN <<>> ELSE <<cf.out>>)

Configure(diffOk, dataOk, cf) == Return(ConfigureOutcome(diffOk, dataOk, cf))

\* An Apply that does not test whether the type is in the map, and returns
\* no error for a missing one.
ApplyOutcomeNoCheck(t, ret) ==
    IF t \notin DOMAIN ResourcesMap
    THEN Outcome("Apply", FALSE, t, Nil, NoError, <<>>, <<>>)
    ELSE Outcome("Apply", FALSE, t, ret.out, ret.err,
                 <<Call("Resource.Apply", t, meta, ret)>>, <<>>)

\* func (p *Provider) Apply(s, d), with t = s.Type: ret is what the
\* resource's Apply returns when it is called.
ApplyOutcome(t, ret) ==
    IF t \notin DOMAIN ResourcesMap
    THEN Outcome("Apply", FALSE, t, Nil, Error("unknown resource type", t),
                 <<>>, <<>>)
    ELSE Outcome("Apply", FALSE, t, ret.out, ret.err,
                 <<Call("Resource.Apply", t, meta, ret)>>, <<>>)

Apply(t, ret) == Return(ApplyOutcome(t, ret))

\* func (p *Provider) Diff(s, c), with t = s.Type
DiffOutcome(t, ret) ==
    IF t \notin DOMAIN ResourcesMap
    THEN Outcome("Diff", FALSE, t, Nil, Error("unknown resource type", t),
                 <<>>, <<>>)
    ELSE Outcome("Diff", FALSE, t, ret.out, ret.err,
                 <<Call("Resource.Diff", t, Nil, ret)>>, <<>>)

Diff(t, ret) == Return(DiffOutcome(t, ret))

\* A Refresh that hands the resource a nil meta.
RefreshOutcomeNoMeta(t, ret) ==
    IF t \notin DOMAIN ResourcesMap
    THEN Outcome("Refresh", FALSE, t, Nil, Error("unknown resource type", t),
                 <<>>, <<>>)
    ELSE Outcome("Refresh", FALSE, t, ret.out, ret.err,
                 <<Call("Resource.Refresh", t, Nil, ret)>>, <<>>)

\* func (p *Provider) Refresh(s), with t = s.Type
RefreshOutcome(t, ret) ==
    IF t \notin DOMAIN ResourcesMap
    THEN Outcome("Refresh", FALSE, t, Nil, Error("unknown resource type", t),
                 <<>>, <<>>)
    ELSE Outcome("Refresh", FALSE, t, ret.out, ret.err,
                 <<Call("Resource.Refresh", t, meta, ret)>>, <<>>)

Refresh(t, ret) == Return(RefreshOutcome(t, ret))

\* A Resources without the sort: the keys as the range visited them.
ResourcesOutcomeUnsorted(order) ==
    Outcome("Resources", FALSE, Empty, order, NoError, <<>>, <<>>)

\* func (p *Provider) Resources(): order is the order in which the range
\* over p.ResourcesMap visits the keys; the result holds one
\* terraform.ResourceType per key, given here by its Name.
ResourcesOutcome(order) ==
    Outcome("Resources", FALSE, Empty, SortStrings(order), NoError, <<>>,
            <<>>)

Resources(order) == Return(ResourcesOutcome(order))

\* The resources the loop of InternalValidate visits, in order: those up to
\* and including the first one whose InternalValidate fails.
RECURSIVE CheckedResources(_)
CheckedResources(order) ==
    IF order = <<>> THEN <<>>
    ELSE IF ~ResourcesMap[Head(order)].valid THEN <<Head(order)>>
    ELSE <<Head(order)>> \o CheckedResources(Tail(order))

\* The invocations InternalValidate makes on a non-nil provider, in order:
\* the provider schema map's InternalValidate and, when that passed, the
\* InternalValidate of the resources the loop visits. order is the order of
\* the range over p.ResourcesMap.
InternalValidateCalls(order) ==
    LET declErr(ok) == IF ok THEN NoError
                       ELSE Error("declaration error", Empty)
        schemaCall == Call("schemaMap.InternalValidate", Empty, Nil,
                           [out |-> Nil, err |-> declErr(Schema.valid)])
        checked == CheckedResources(order)
    IN  IF ~Schema.valid THEN <<schemaCall>>
        ELSE <<schemaCall>> \o
             [i \in 1..Len(checked) |->
                 Call("Resource.InternalValidate", checked[i], Nil,
                      [out |-> Nil,
                       err |-> declErr(ResourcesMap[checked[i]].valid)])]

\* An InternalValidate that returns after the provider schema and never
\* looks at the resources.
InternalValidateOutcomeSchemaOnly(recvNil, order) ==
    LET calls == SubSeq(InternalValidateCalls(order), 1, 1)
    IN  IF recvNil
        THEN Outcome("InternalValidate", TRUE, Empty, Nil,
                     Error("provider is nil", Empty), <<>>, <<>>)
        ELSE Outcome("InternalValidate", FALSE, Empty, Nil,
                     calls[1].ret.err, calls, <<>>)

\* func (p *Provider) InternalValidate(): recvNil says the receiver is a nil
\* *Provider. The error of the schema map is returned as it is, the error
\* of a resource k as "<k>: <err>": its subject is k.
InternalValidateOutcome(recvNil, order) ==
    LET calls == InternalValidateCalls(order)
        failed == calls[Len(calls)]
    IN  IF recvNil
        THEN Outcome("InternalValidate", TRUE, Empty, Nil,
                     Error("provider is nil", Empty), <<>>, <<>>)
        ELSE Outcome("InternalValidate", FALSE, Empty, Nil,
                     IF failed.ret.err = NoError THEN NoError
                     ELSE Error(failed.ret.err.kind, failed.key),
                     calls, <<>>)

\* A call on a nil *Provider reads no field and so leaves every provider as
\* it is; it is recorded like the other calls.
InternalValidate(recvNil, order) ==
    Return(InternalValidateOutcome(recvNil, order))

Next ==
    \/ Meta
    \/ \E v \in MetaValues : SetMeta(v)
    \/ \E ret \in ResourceReturns : Validate(ret)
    \/ \E t \in TypeNames, ret \in ResourceReturns : ValidateResource(t, ret)
    \/ \E diffOk, dataOk \in BOOLEAN, cf \in ConfigureReturns :
          Configure(diffOk, dataOk, cf)
    \/ \E t \in TypeNames, ret \in ResourceReturns : Apply(t, ret)
    \/ \E t \in TypeNames, ret \in ResourceReturns : Diff(t, ret)
    \/ \E t \in TypeNames, ret \in ResourceReturns : Refresh(t, ret)
    \/ \E order \in IterationOrders(DOMAIN ResourcesMap) : Resources(order)
    \/ \E recvNil \in BOOLEAN,
          order \in IterationOrders(DOMAIN ResourcesMap) :
          InternalValidate(recvNil, order)

Spec == Init /\ [][Next]_vars

----------------------------------------------------------------------------
(* Properties of the provider *)

\* The Resource method a provider operation forwards to.
ForwardsTo(op) ==
    CASE op = "Apply" -> "Resource.Apply"
      [] op = "Diff" -> "Resource.Diff"
      [] op = "Refresh" -> "Resource.Refresh"
      [] op = "ValidateResource" -> "Resource.Validate"

\* C1: Apply, Diff, Refresh and ValidateResource on a type name that is no
\* key of ResourcesMap return an error with a nil result and call nothing;
\* on a key they make exactly one call, to that resource's method of the
\* same name, and return what it returned.
C1_Dispatch ==
    last.op \in {"Apply", "Diff", "Refresh", "ValidateResource"} =>
        IF last.t \notin DOMAIN ResourcesMap
        THEN /\ last.err # NoError
             /\ last.out = Nil
             /\ last.calls = <<>>
        ELSE /\ Len(last.calls) = 1
             /\ last.calls[1].fn = ForwardsTo(last.op)
             /\ last.calls[1].key = last.t
             /\ last.out = last.calls[1].ret.out
             /\ last.err = last.calls[1].ret.err

\* An unknown type was refused by Refresh on a provider that has resources.
C1_Witness ==
    /\ last.op = "Refresh"
    /\ last.t \notin DOMAIN ResourcesMap
    /\ DOMAIN ResourcesMap # {}
    /\ last.err = Error("unknown resource type", last.t)

\* C2 as claimed: p.meta is written exactly once, by Configure, and no
\* resource is handed meta by Apply or Refresh before that write.
C2_WrittenOnce ==
    [][/\ last'.assign # <<>> =>
             last'.op = "Configure" /\ metaWrites = "never"
       /\ \A i \in 1..Len(last'.calls) :
             last'.calls[i].fn \in {"Resource.Apply", "Resource.Refresh"} =>
                 metaWrites # "never"]_vars

\* C2 (amended): p.meta is assigned by every SetMeta and by every Configure
\* of a provider with a ConfigureFunc that returns no error, however often
\* they are called, and by nothing else; a call that does not assign it
\* leaves it as it was.
C2_MetaWriters ==
    [][/\ last'.assign # <<>> <=>
             \/ last'.op = "SetMeta"
             \/ /\ last'.op = "Configure"
                /\ ConfigureFunc # "nil"
                /\ last'.err = NoError
       /\ last'.assign = <<>> => meta' = meta
       /\ last'.assign # <<>> => meta' = last'.assign[1]]_vars

\* Configure has just assigned p.meta on a provider whose meta had been
\* written before.
C2_Witness ==
    /\ last.op = "Configure"
    /\ last.assign # <<>>
    /\ metaWrites = "more"

\* C3 as claimed: Meta() is nil until Configure is called, and after a
\* Configure of a provider with a ConfigureFunc that returned no error it is
\* the value ConfigureFunc produced.
C3_NilUntilConfigure ==
    /\ ~configureCalled => MetaOutcome.out = Nil
    /\ (last.op = "Configure" /\ last.err = NoError /\ ConfigureFunc # "nil")
          => MetaOutcome.out = last.calls[Len(last.calls)].ret.out

\* C3 (amended): Meta() is nil until p.meta is first assigned, by SetMeta or
\* by Configure; after a Configure of a provider with a ConfigureFunc that
\* returned no error it is the value ConfigureFunc produced, whatever was
\* stored before; a Configure of a provider without a ConfigureFunc returns
\* no error and assigns nothing.
C3_MetaAfterConfigure ==
    /\ metaWrites = "never" => MetaOutcome.out = Nil
    /\ (last.op = "Configure" /\ last.err = NoError /\ ConfigureFunc # "nil")
          => /\ Len(last.calls) = 3
             /\ last.calls[3].fn = "ConfigureFunc"
             /\ MetaOutcome.out = last.calls[3].ret.out
    /\ (last.op = "Configure" /\ ConfigureFunc = "nil")
          => last.err = NoError /\ last.assign = <<>> /\ last.calls = <<>>

\* Configure has replaced a value stored before it by the one ConfigureFunc
\* returned.
C3_Witness ==
    /\ last.op = "Configure"
    /\ last.err = NoError
    /\ metaWrites = "more"
    /\ last.calls # <<>>
    /\ meta = "m2"

\* C4: Configure calls sm.Diff, sm.Data and ConfigureFunc in this order,
\* each only if the one before returned no error; the error it returns is
\* that of the call that failed; and a Configure that returns an error
\* leaves p.meta as it was.
C4_ConfigureOrder ==
    [][last'.op = "Configure" =>
          LET calls == last'.calls
              order == <<"schemaMap.Diff", "schemaMap.Data", "ConfigureFunc">>
          IN  /\ Len(calls) <= 3
              /\ \A i \in 1..Len(calls) : calls[i].fn = order[i]
              /\ \A i \in 1..(Len(calls) - 1) : calls[i].ret.err = NoError
              /\ last'.err # NoError =>
                    /\ calls # <<>>
                    /\ calls[Len(calls)].ret.err = last'.err
                    /\ last'.assign = <<>>
                    /\ meta' = meta
              /\ last'.err = NoError /\ calls # <<>> =>
                    /\ Len(calls) = 3
                    /\ calls[3].ret.err = NoError]_vars

\* sm.Data failed in a Configure of a provider that holds a meta value:
\* ConfigureFunc was not called and the value is still there.
C4_Witness ==
    /\ last.op = "Configure"
    /\ last.err = Error("data error", Empty)
    /\ Len(last.calls) = 2
    /\ meta = "m1"

\* The operations of the provider that only read it.
ReadOnlyOps ==
    {"Validate", "ValidateResource", "Apply", "Diff", "Refresh", "Resources",
     "Meta", "InternalValidate"}

\* C5: Validate, ValidateResource, Apply, Diff, Refresh, Resources, Meta and
\* InternalValidate assign neither Schema nor ResourcesMap nor meta, and the
\* meta a resource is handed by Apply or Refresh is the value stored in the
\* provider.
C5_ReadOnly ==
    [][last'.op \in ReadOnlyOps =>
          /\ last'.assign = <<>>
          /\ Schema' = Schema
          /\ ResourcesMap' = ResourcesMap
          /\ meta' = meta
          /\ \A i \in 1..Len(last'.calls) :
                last'.calls[i].arg =
                    IF last'.calls[i].fn \in
                           {"Resource.Apply", "Resource.Refresh"}
                    THEN meta ELSE Nil]_vars

\* Refresh has handed a resource the meta value a Configure stored.
C5_Witness ==
    /\ last.op = "Refresh"
    /\ last.calls # <<>>
    /\ configureCalled
    /\ meta = "m1"
    /\ last.calls[1].arg = "m1"

\* C6: Resources() lists the keys of ResourcesMap in strictly increasing
\* order, each key once and nothing else.
C6_ResourcesSorted ==
    last.op = "Resources" =>
        /\ Len(last.out) = Cardinality(DOMAIN ResourcesMap)
        /\ {last.out[i] : i \in 1..Len(last.out)} = DOMAIN ResourcesMap
        /\ \A i \in 1..(Len(last.out) - 1) :
              StrLess(last.out[i], last.out[i + 1])

\* Resources() has listed "ab" before "b".
C6_Witness ==
    /\ last.op = "Resources"
    /\ last.out = <<<<1, 2>>, <<2>>>>

\* C7: InternalValidate returns nil exactly when the provider is not nil,
\* its schema map is valid and every resource is valid; a nil provider gives
\* "provider is nil"; an invalid schema map gives its error and no resource
\* is checked; otherwise an invalid resource gives its error prefixed with
\* the type name of a resource that is invalid.
C7_InternalValidate ==
    last.op = "InternalValidate" =>
        LET allValid == \A k \in DOMAIN ResourcesMap : ResourcesMap[k].valid
            checks == {i \in 1..Len(last.calls) :
                          last.calls[i].fn = "Resource.InternalValidate"}
        IN  /\ last.err = NoError <=>
                  ~last.recvNil /\ Schema.valid /\ allValid
            /\ last.recvNil =>
                  /\ last.err = Error("provider is nil", Empty)
                  /\ last.calls = <<>>
            /\ ~last.recvNil /\ ~Schema.valid =>
                  /\ last.err = Error("declaration error", Empty)
                  /\ checks = {}
            /\ ~last.recvNil /\ Schema.valid /\ ~allValid =>
                  /\ last.err.kind = "declaration error"
                  /\ last.err.subject \in DOMAIN ResourcesMap
                  /\ ~ResourcesMap[last.err.subject].valid
            /\ ~last.recvNil /\ Schema.valid /\ allValid =>
                  {last.calls[i].key : i \in checks} = DOMAIN ResourcesMap

\* InternalValidate has returned the error of the invalid one of two
\* resources.
C7_Witness ==
    /\ last.op = "InternalValidate"
    /\ Cardinality(DOMAIN ResourcesMap) = 2
    /\ \E k \in DOMAIN ResourcesMap : ResourcesMap[k].valid
    /\ last.err.kind = "declaration error"
    /\ last.err.subject # Empty

----------------------------------------------------------------------------
(* package config: ProviderConfigName *)

\* The largest number of provider configurations of a Config.
MaxProviderConfigs == 3

\* Names of provider configurations, as byte strings: "", "a", "ab", "abc"
\* and "b".
ProviderNames == {Empty, <<1>>, <<1, 2>>, <<1, 2, 3>>, <<2>>}

\* Resource types handed to ProviderConfigName: "", "ab", "abc", "ba".
ResourceTypes == {Empty, <<1, 2>>, <<1, 2, 3>>, <<2, 1>>}

\* A *RawConfig: the interpolated variables found in it (a map keyed by
\* their full keys, here the set of its values) and the keys of its Raw map.
RawConfig(variables, raw) == [Variables |-> variables, Raw |-> raw]

\* A *ProviderConfig.
ProviderConfig(name, rawConfig) == [RawConfig |-> rawConfig, Name |-> name]

\* The loop of ProviderConfigName from the configurations not yet visited
\* and the value of lk, for a loop that keeps the last prefix it meets.
RECURSIVE LongestKeyLast(_, _, _)
LongestKeyLast(t, pcs, lk) ==
    IF pcs = <<>> THEN lk
    ELSE LET k == Head(pcs).Name
         IN  LongestKeyLast(t, Tail(pcs), IF HasPrefix(t, k) THEN k ELSE lk)

\* The loop of ProviderConfigName from the configurations not yet visited
\* and the value of lk:
\*     if strings.HasPrefix(t, k) && len(k) > len(lk) { lk = k }
RECURSIVE LongestKey(_, _, _)
LongestKey(t, pcs, lk) ==
    IF pcs = <<>> THEN lk
    ELSE LET k == Head(pcs).Name
         IN  LongestKey(t, Tail(pcs),
                        IF HasPrefix(t, k) /\ Len(k) > Len(lk) THEN k ELSE lk)

\* func ProviderConfigName(t string, pcs []*ProviderConfig) string
ProviderConfigName(t, pcs) == LongestKey(t, pcs, Empty)

\* The arguments of one call, which has not returned yet.
InitNames ==
    /\ \E t \in ResourceTypes, n \in 0..MaxProviderConfigs :
          \E names \in [1..n -> ProviderNames] :
             pcn = [t |-> t,
                    pcs |-> [i \in 1..n |->
                               ProviderConfig(names[i], RawConfig({}, {}))],
                    returned |-> FALSE,
                    result |-> Empty]
    /\ config = Unused /\ validated = Unused
    /\ Schema = Unused /\ ResourcesMap = Unused /\ ConfigureFunc = Unused
    /\ meta = Unused /\ last = Unused /\ configureCalled = Unused
    /\ metaWrites = Unused /\ d = Unused /\ hk = Unused
    /\ perms = Unused /\ listeners = Unused

\* The call returns.
CallProviderConfigName ==
    /\ ~pcn.returned
    /\ pcn' = [pcn EXCEPT !.returned = TRUE,
                          !.result = ProviderConfigName(pcn.t, pcn.pcs)]
    /\ UNCHANGED <<config, validated, provVars, herokuVars, awsVars>>

NextNames == CallProviderConfigName

SpecNames == InitNames /\ [][NextNames]_vars

\* The positions in pcs of the names that are prefixes of t.
PrefixPositions(t, pcs) ==
    {i \in 1..Len(pcs) : /\ Len(pcs[i].Name) <= Len(t)
                         /\ \A j \in 1..Len(pcs[i].Name) :
                               pcs[i].Name[j] = t[j]}

\* C8: ProviderConfigName returns the empty string when no name in pcs is a
\* prefix of t, and otherwise the name of the first configuration in pcs
\* among those whose names are prefixes of t of the greatest length.
C8_LongestPrefix ==
    pcn.returned =>
        LET at == PrefixPositions(pcn.t, pcn.pcs)
            longest == {i \in at : \A j \in at :
                           Len(pcn.pcs[j].Name) <= Len(pcn.pcs[i].Name)}
            first == CHOOSE i \in longest : \A j \in longest : i <= j
        IN  IF at = {} THEN pcn.result = Empty
            ELSE pcn.result = pcn.pcs[first].Name

\* The call returned "ab" for "abc", though a shorter prefix, "a", comes
\* after "ab" in pcs, and a name that is no prefix, "b", is in pcs too.
C8_Witness ==
    /\ pcn.returned
    /\ pcn.t = <<1, 2, 3>>
    /\ [i \in 1..Len(pcn.pcs) |-> pcn.pcs[i].Name] = <<<<2>>, <<1, 2>>, <<1>>>>
    /\ pcn.result = <<1, 2>>

----------------------------------------------------------------------------
(* package config: Config.Validate *)

\* The largest number of entries of a Config: unknown keys, variables,
\* provider configurations, resources and outputs together.
MaxConfigItems == 3

\* A *UserVariable "var.<name>" found in a RawConfig.
UserVariable(name) ==
    [Name |-> name, Type |-> "", class |-> "user", Multi |-> FALSE,
     FullKey |-> "var." \o name]

\* A *ResourceVariable found in a RawConfig: "<type>.<name>.id", or
\* "<type>.<name>.*.id" when Multi.
ResourceVariable(type, name, multi) ==
    [Name |-> name, Type |-> type, class |-> "resource", Multi |-> multi,
     FullKey |-> type \o "." \o name \o (IF multi THEN ".*.id" ELSE ".id")]

\* A *Variable. Its Default is given by its shape ("nil", "string", "map" or
\* "list"), by whether an interpolation occurs in it, so that the walk over
\* it calls the function that sets interp, and by whether that walk,
\* reflectwalk.Walk with an interpolationWalker, returns without an error.
Variable(name, shape, interpolated, walked) ==
    [Name |-> name,
     Default |-> [shape |-> shape, interpolated |-> interpolated,
                  walked |-> walked]]

\* A *Resource.
Resource(type, name, count, dependsOn, rawConfig) ==
    [RawConfig |-> rawConfig, Name |-> name, Type |-> type, Count |-> count,
     DependsOn |-> dependsOn]

\* An *Output.
Output(name, rawConfig) == [RawConfig |-> rawConfig, Name |-> name]

\* func (r *Resource) Id() string
Id(r) == r.Type \o "." \o r.Name

\* func (v *Variable) Type() VariableType: a nil Default and one that
\* decodes to a string are strings, one that decodes to a map[string]string
\* is a map, and any other, such as a list, has no known type.
VariableType(v) ==
    IF v.Default.shape \in {"nil", "string"} THEN "VariableTypeString"
    ELSE IF v.Default.shape = "map" THEN "VariableTypeMap"
    ELSE "VariableTypeUnknown"

\* The elements of a finite set in some order.
RECURSIVE SetToSeq(_)
SetToSeq(S) ==
    IF S = {} THEN <<>>
    ELSE LET x == CHOOSE y \in S : TRUE IN <<x>> \o SetToSeq(S \ {x})

\* The errors of a sequence of lists of errors, as a bag: errs is appended
\* to in loops, some of them over maps, whose order Go leaves open.
RECURSIVE SumBags(_)
SumBags(bags) ==
    IF bags = <<>> THEN EmptyBag ELSE Head(bags) (+) SumBags(Tail(bags))

\* The bag holding x when cond holds, and nothing otherwise.
ErrorIf(cond, x) == IF cond THEN SetToBag({x}) ELSE EmptyBag

\* func (c *Config) allVariables(): the variables of every provider
\* configuration, resource and output with the source they are listed
\* under. Entries with the same source are one entry of the map, with their
\* variables appended.
AllVariables(c) ==
    [i \in 1..Len(c.ProviderConfigs) |->
        [variables |-> SetToSeq(c.ProviderConfigs[i].RawConfig.Variables),
         source |-> "provider config '" \o c.ProviderConfigs[i].Name \o "'"]]
    \o [i \in 1..Len(c.Resources) |->
        [variables |-> SetToSeq(c.Resources[i].RawConfig.Variables),
         source |-> "resource '" \o Id(c.Resources[i]) \o "'"]]
    \o [i \in 1..Len(c.Outputs) |->
        [variables |-> SetToSeq(c.Outputs[i].RawConfig.Variables),
         source |-> "output '" \o c.Outputs[i].Name \o "'"]]

\* The map "resources" of Validate: for each id the last resource of
\* c.Resources with that id.
ResourcesById(c) ==
    [id \in {Id(c.Resources[i]) : i \in 1..Len(c.Resources)} |->
        LET at == {i \in 1..Len(c.Resources) : Id(c.Resources[i]) = id}
        IN  c.Resources[CHOOSE i \in at : \A j \in at : j <= i]]

\* The first loop of Validate: one error per unknown root-level key.
UnknownKeyErrors(c) ==
    SumBags([i \in 1..Len(c.unknownKeys) |->
                SetToBag({"Unknown root level key: " \o c.unknownKeys[i]})])

\* The loop over c.Variables: a variable of unknown type is reported and
\* not looked at further; the default of another one is walked, and the
\* variable is reported when the walk returned no error and has met an
\* interpolation.
VariableErrors(c) ==
    SumBags([i \in 1..Len(c.Variables) |->
        LET v == c.Variables[i]
            err == IF v.Default.walked THEN NoError
                   ELSE Error("walk error", Empty)
            interp == v.Default.interpolated
        IN  IF VariableType(v) = "VariableTypeUnknown"
            THEN SetToBag({"Variable '" \o v.Name
                           \o "': must be string or mapping"})
            ELSE IF err = NoError
            THEN ErrorIf(interp, "Variable '" \o v.Name
                                 \o "': cannot contain interpolations")
            ELSE EmptyBag])

\* The first loop over vars: references to user variables that c.Variables
\* does not declare.
UserVariableErrors(c) ==
    LET varMap == {c.Variables[i].Name : i \in 1..Len(c.Variables)}
        all == AllVariables(c)
    IN  SumBags([i \in 1..Len(all) |->
            SumBags([j \in 1..Len(all[i].variables) |->
                LET v == all[i].variables[j]
                IN  ErrorIf(v.class = "user" /\ v.Name \notin varMap,
                            all[i].source \o ": unknown variable referenced: "
                            \o v.Name)])])

\* The loop over c.Resources that fills the map "resources", from the i-th
\* resource on: an id already in the map is reported unless it is in dupped.
RECURSIVE DuppedLoop(_, _, _, _)
DuppedLoop(c, i, resources, dupped) ==
    IF i > Len(c.Resources) THEN EmptyBag
    ELSE LET id == Id(c.Resources[i])
             report == id \in resources /\ id \notin dupped
         IN  ErrorIf(report, id \o ": resource repeated multiple times")
             (+) DuppedLoop(c, i + 1, resources \cup {id},
                            IF report THEN dupped \cup {id} ELSE dupped)

RepeatedResourceErrors(c) == DuppedLoop(c, 1, {}, {})

\* The loop over the map "resources": count and depends_on of the resource
\* kept for each id.
ResourceErrors(c) ==
    LET resources == ResourcesById(c)
        ids == SetToSeq(DOMAIN resources)
    IN  SumBags([i \in 1..Len(ids) |->
            LET n == ids[i]
                r == resources[n]
            IN  ErrorIf(r.Count < 1,
                        n \o ": count must be greater than or equal to 1")
                (+) SumBags([j \in 1..Len(r.DependsOn) |->
                        ErrorIf(r.DependsOn[j] \notin DOMAIN resources,
                                n \o ": resource depends on non-existent "
                                \o "resource '" \o r.DependsOn[j] \o "'")])])

\* The second loop over vars: references to resources that are not in the
\* map, and references without an index to a resource kept with a count
\* above one.
ResourceVariableErrors(c) ==
    LET resources == ResourcesById(c)
        all == AllVariables(c)
    IN  SumBags([i \in 1..Len(all) |->
            SumBags([j \in 1..Len(all[i].variables) |->
                LET rv == all[i].variables[j]
                    id == rv.Type \o "." \o rv.Name
                IN  IF rv.class # "resource" THEN EmptyBag
                    ELSE IF id \notin DOMAIN resources
                    THEN SetToBag({all[i].source \o ": unknown resource '"
                                   \o id \o "' referenced in variable "
                                   \o rv.FullKey})
                    ELSE ErrorIf(resources[id].Count > 1 /\ ~rv.Multi,
                                 all[i].source \o ": variable '" \o rv.FullKey
                                 \o "' must specify index for multi-count "
                                 \o "resource " \o id)])])

\* The loop over c.Outputs: an output with a key other than "value".
OutputErrors(c) ==
    SumBags([i \in 1..Len(c.Outputs) |->
        ErrorIf(\E k \in c.Outputs[i].RawConfig.Raw : k # "value",
                c.Outputs[i].Name
                \o ": output should only have 'value' field")])

\* A Validate that returns the errors of the first loop that found any.
ValidateErrorsFirst(c) ==
    LET loops == <<UnknownKeyErrors(c), VariableErrors(c),
                   UserVariableErrors(c), RepeatedResourceErrors(c),
                   ResourceErrors(c), ResourceVariableErrors(c),
                   OutputErrors(c)>>
        failed == {i \in 1..Len(loops) : loops[i] # EmptyBag}
    IN  IF failed = {} THEN EmptyBag
        ELSE loops[CHOOSE i \in failed : \A j \in failed : i <= j]

\* The errs of Validate when it reaches its end.
ValidateErrors(c) ==
    UnknownKeyErrors(c) (+) VariableErrors(c) (+) UserVariableErrors(c)
    (+) RepeatedResourceErrors(c) (+) ResourceErrors(c)
    (+) ResourceVariableErrors(c) (+) OutputErrors(c)

\* func (c *Config) Validate() error: nil, or a *multierror.Error with the
\* errors found.
ConfigValidate(c) ==
    LET errs == ValidateErrors(c)
    IN  [returned |-> TRUE, isNil |-> errs = EmptyBag, Errors |-> errs]

\* The configurations Validate is given.
UnknownKeyLists == {<<>>, <<"foo">>}

VariableLists ==
    {<<>>} \cup {<<Variable("x", default[1], default[2], default[3])>> :
                    default \in {<<"nil", FALSE, TRUE>>,
                                 <<"string", TRUE, TRUE>>,
                                 <<"string", TRUE, FALSE>>,
                                 <<"map", TRUE, TRUE>>,
                                 <<"map", FALSE, FALSE>>,
                                 <<"list", FALSE, TRUE>>,
                                 <<"list", TRUE, TRUE>>}}

ProviderConfigLists ==
    {<<>>, <<ProviderConfig("aws", RawConfig({UserVariable("x")}, {}))>>}

ResourceChoices ==
    {Resource("t", name, count, use[1], RawConfig(use[2], {})) :
        name \in {"a", "b"}, count \in {0, 1, 2},
        use \in {<<<<>>, {}>>, <<<<"t.b">>, {}>>,
                 <<<<>>, {ResourceVariable("t", "a", FALSE)}>>}}

OutputLists ==
    {<<>>} \cup {<<Output("o", RawConfig(variables, raw))>> :
                    variables \in {{}, {UserVariable("x")},
                                   {ResourceVariable("t", "a", FALSE)},
                                   {ResourceVariable("t", "a", TRUE)}},
                    raw \in {{"value"}, {"value", "other"}}}

\* A Config.
Config(unknownKeys, variables, providerConfigs, resources, outputs) ==
    [Resources |-> resources, Variables |-> variables,
     ProviderConfigs |-> providerConfigs, Outputs |-> outputs,
     unknownKeys |-> unknownKeys]

NotValidated == [returned |-> FALSE, isNil |-> TRUE, Errors |-> EmptyBag]

InitConfig ==
    /\ \E ks \in UnknownKeyLists, vs \in VariableLists,
          pcs \in ProviderConfigLists, os \in OutputLists :
          \E n \in 0..(MaxConfigItems - Len(ks) - Len(vs) - Len(pcs)
                       - Len(os)) :
             \E rs \in [1..n -> ResourceChoices] :
                config = Config(ks, vs, pcs, rs, os)
    /\ validated = NotValidated
    /\ pcn = Unused
    /\ Schema = Unused /\ ResourcesMap = Unused /\ ConfigureFunc = Unused
    /\ meta = Unused /\ last = Unused
    /\ configureCalled = Unused /\ metaWrites = Unused
    /\ d = Unused /\ hk = Unused
    /\ perms = Unused /\ listeners = Unused

\* err := c.Validate()
CallConfigValidate ==
    /\ ~validated.returned
    /\ validated' = ConfigValidate(config)
    /\ UNCHANGED <<config, pcn>>
    /\ UNCHANGED <<provVars, herokuVars, awsVars>>

NextConfig == CallConfigValidate

SpecConfig == InitConfig /\ [][NextConfig]_vars

\* The references of a configuration: each interpolated variable with the
\* provider configuration, resource or output it occurs in.
References(c) ==
    UNION {{<<"provider config '" \o c.ProviderConfigs[i].Name \o "'", v>> :
                v \in c.ProviderConfigs[i].RawConfig.Variables} :
             i \in 1..Len(c.ProviderConfigs)}
    \cup UNION {{<<"resource '" \o Id(c.Resources[i]) \o "'", v>> :
                    v \in c.Resources[i].RawConfig.Variables} :
                i \in 1..Len(c.Resources)}
    \cup UNION {{<<"output '" \o c.Outputs[i].Name \o "'", v>> :
                    v \in c.Outputs[i].RawConfig.Variables} :
                i \in 1..Len(c.Outputs)}

\* The resources of a configuration, and the last one declared for each id.
DeclaredResources(c) == {c.Resources[i] : i \in 1..Len(c.Resources)}

LastDeclaredResources(c) ==
    {c.Resources[i] : i \in {j \in 1..Len(c.Resources) :
        \A k \in (j + 1)..Len(c.Resources) :
            Id(c.Resources[k]) # Id(c.Resources[j])}}

RepeatedMessages(c) ==
    {Id(c.Resources[i]) \o ": resource repeated multiple times" :
        i \in {j \in 1..Len(c.Resources) :
                  \E k \in 1..(j - 1) : Id(c.Resources[k]) = Id(c.Resources[j])}}

\* The messages for the variables as the claim has them: one for every
\* variable of unknown type and one for every variable with an interpolation
\* in its default.
ClaimedVariableMessages(c) ==
    LET vs == {c.Variables[i] : i \in 1..Len(c.Variables)}
    IN  {"Variable '" \o v.Name \o "': must be string or mapping" :
            v \in {w \in vs : w.Default.shape \notin
                                 {"nil", "string", "map"}}}
        \cup {"Variable '" \o v.Name \o "': cannot contain interpolations" :
                v \in {w \in vs : w.Default.interpolated}}

\* The messages for the variables, amended: one for every variable of
\* unknown type, and one for every variable of a known type with an
\* interpolation in its default, provided the walk over the default
\* returned no error.
WalkedVariableMessages(c) ==
    LET vs == {c.Variables[i] : i \in 1..Len(c.Variables)}
    IN  {"Variable '" \o v.Name \o "': must be string or mapping" :
            v \in {w \in vs : w.Default.shape \notin
                                 {"nil", "string", "map"}}}
        \cup {"Variable '" \o v.Name \o "': cannot contain interpolations" :
                v \in {w \in vs : /\ w.Default.shape \in
                                        {"nil", "string", "map"}
                                  /\ w.Default.walked
                                  /\ w.Default.interpolated}}

\* The message of every violation of a configuration, where rs are the
\* resources whose count and depends_on are looked at and variableMessages
\* are the messages for the variables.
Violations(c, rs, variableMessages) ==
    LET ids == {Id(r) : r \in DeclaredResources(c)}
        declared == {c.Variables[i].Name : i \in 1..Len(c.Variables)}
        refs == References(c)
        id(v) == v.Type \o "." \o v.Name
    IN  {"Unknown root level key: " \o c.unknownKeys[i] :
            i \in 1..Len(c.unknownKeys)}
        \cup variableMessages
        \cup {ref[1] \o ": unknown variable referenced: " \o ref[2].Name :
                ref \in {x \in refs : /\ x[2].class = "user"
                                      /\ x[2].Name \notin declared}}
        \cup RepeatedMessages(c)
        \cup {Id(r) \o ": count must be greater than or equal to 1" :
                r \in {x \in rs : x.Count < 1}}
        \cup UNION {{Id(r) \o ": resource depends on non-existent resource '"
                     \o r.DependsOn[i] \o "'" :
                        i \in {j \in 1..Len(r.DependsOn) :
                                  r.DependsOn[j] \notin ids}} : r \in rs}
        \cup {ref[1] \o ": unknown resource '" \o id(ref[2])
              \o "' referenced in variable " \o ref[2].FullKey :
                ref \in {x \in refs : /\ x[2].class = "resource"
                                      /\ id(x[2]) \notin ids}}
        \cup {ref[1] \o ": variable '" \o ref[2].FullKey
              \o "' must specify index for multi-count resource "
              \o id(ref[2]) :
                ref \in {x \in refs :
                            /\ x[2].class = "resource"
                            /\ ~x[2].Multi
                            /\ \E r \in rs : /\ Id(r) = id(x[2])
                                             /\ r.Count > 1}}
        \cup {c.Outputs[i].Name \o ": output should only have 'value' field" :
                i \in {j \in 1..Len(c.Outputs) :
                          c.Outputs[j].RawConfig.Raw \ {"value"} # {}}}

\* C9, as stated: Validate returns nil if and only if the configuration has
\* no violation, and otherwise a multi-error holding an error for every
\* violation, those of every declared resource and of every interpolated
\* default among them, with a repeated resource id reported exactly once.
C9_AllViolations ==
    validated.returned =>
        LET claimed == Violations(config, DeclaredResources(config),
                                  ClaimedVariableMessages(config))
        IN  /\ validated.isNil <=> (claimed = {})
            /\ \A m \in claimed : CopiesIn(m, validated.Errors) >= 1
            /\ \A m \in RepeatedMessages(config) :
                  CopiesIn(m, validated.Errors) = 1

\* C9, amended: Validate returns nil if and only if the configuration has no
\* violation; otherwise it returns a multi-error that holds an error for
\* every violation and nothing else. Here the count and depends_on that
\* count for a repeated resource id are those of its last declaration; a
\* variable of unknown type is reported as such only; an interpolation in
\* the default of a variable of a known type is a violation only if the
\* walk over the default returned no error; and a repeated resource id is
\* reported exactly once.
C9_LastDeclaration ==
    validated.returned =>
        LET found == Violations(config, LastDeclaredResources(config),
                                WalkedVariableMessages(config))
        IN  /\ validated.isNil <=> (found = {})
            /\ validated.isNil <=> (validated.Errors = EmptyBag)
            /\ BagToSet(validated.Errors) = found
            /\ \A m \in RepeatedMessages(config) :
                  CopiesIn(m, validated.Errors) = 1

\* A configuration was validated in which a resource id is declared twice,
\* the first time with count 0 and the last time with a count of at least 1,
\* and in which the walk over the default of a string variable met an
\* interpolation and returned an error: the multi-error holds two different
\* errors, none of them about the count or the variable.
C9_Witness ==
    /\ validated.returned
    /\ ~validated.isNil
    /\ Cardinality(BagToSet(validated.Errors)) = 2
    /\ \E r \in DeclaredResources(config) \ LastDeclaredResources(config) :
          /\ r.Count < 1
          /\ \E l \in LastDeclaredResources(config) :
                Id(l) = Id(r) /\ l.Count >= 1
    /\ \E i \in 1..Len(config.Variables) :
          /\ config.Variables[i].Default.shape = "string"
          /\ config.Variables[i].Default.interpolated
          /\ ~config.Variables[i].Default.walked
    /\ \A r \in DeclaredResources(config) :
          CopiesIn(Id(r) \o ": count must be greater than or equal to 1",
                   validated.Errors) = 0
    /\ \A i \in 1..Len(config.Variables) :
          CopiesIn("Variable '" \o config.Variables[i].Name
                   \o "': cannot contain interpolations",
                   validated.Errors) = 0

----------------------------------------------------------------------------
(* package heroku: the callbacks of the heroku_app resource *)

\* The largest number of maps in a config_vars list.
MaxVarMaps == 2

\* A *string: nil, or a pointer to s.
NilString == <<>>
StringPtr(s) == <<s>>

\* The names of the apps of the remote service.
AppNames == {"app1", "app2"}

\* The maps of a config_vars list.
VarMaps == {"A" :> "1", "A" :> "2" @@ "B" :> "1", "C" :> "2"}

\* The value of the attribute config_vars: nil, or a list of maps.
NilList == [isNil |-> TRUE, list |-> <<>>]
List(l) == [isNil |-> FALSE, list |-> l]
ConfigVarLists ==
    {NilList} \cup {List(l) : l \in UNION {[1..n -> VarMaps] :
                                              n \in 0..MaxVarMaps}}

\* A call of the heroku client: the method, the id of the app it is
\* addressed to, the options of AppCreate and AppUpdate, the vars of
\* ConfigVarUpdate, whether it succeeded, and the name of the app that
\* AppCreate, AppUpdate and AppInfo return ("" with no app returned).
ClientCall(fn, id, opts, vs, ok, app) ==
    [vars |-> vs, fn |-> fn, ok |-> ok, id |-> id, opts |-> opts, app |-> app]

\* heroku.AppCreateOpts and heroku.AppUpdateOpts.
Opts(name, region, stack) == [Name |-> name, Region |-> region, Stack |-> stack]

\* The result of a callback, or of a part of it: the ResourceData as it
\* leaves it, the error returned and the calls made on the client.
Result(data, err, calls) == [err |-> err, calls |-> calls, data |-> data]

\* update_config_vars builds vars: every key of the old maps is nil, then
\* every key of the new maps points to its value.
RECURSIVE OldKeys(_, _)
OldKeys(vs, o) ==
    IF o = <<>> THEN vs
    ELSE OldKeys([k \in DOMAIN Head(o) |-> NilString] @@ vs, Tail(o))

RECURSIVE NewValues(_, _)
NewValues(vs, n) ==
    IF n = <<>> THEN vs
    ELSE NewValues([k \in DOMAIN Head(n) |-> StringPtr(Head(n)[k])] @@ vs,
                   Tail(n))

\* An update_config_vars that goes through the new maps first and through
\* the old maps last.
update_config_varsOldLast(id, o, n, updateOk) ==
    [err |-> IF updateOk THEN NoError
             ELSE Error("Error updating config vars", Empty),
     calls |-> <<ClientCall("ConfigVarUpdate", id, Opts(NilString, NilString,
                                                       NilString),
                            OldKeys(NewValues(<<>>, n), o), updateOk, "")>>]

\* func update_config_vars(id, client, o, n) error: the call it makes and
\* the error it returns, when ConfigVarUpdate succeeds or fails.
update_config_vars(id, o, n, updateOk) ==
    [err |-> IF updateOk THEN NoError
             ELSE Error("Error updating config vars", Empty),
     calls |-> <<ClientCall("ConfigVarUpdate", id, Opts(NilString, NilString,
                                                       NilString),
                            NewValues(OldKeys(<<>>, o), n), updateOk, "")>>]

\* The options of a call that takes none, and the vars of one that sends none.
NoOpts == Opts(NilString, NilString, NilString)
NoVars == <<>>

\* A *schema.ResourceData: its id, the attributes name and config_vars as
\* the state has them (old) and as Get returns them (new), region and stack
\* as Get returns them, and the attributes written with Set.
ResourceData(id, name, cv, region, stack, attrs) ==
    [name |-> name, id |-> id, region |-> region, stack |-> stack,
     attrs |-> attrs, config_vars |-> cv]

\* No attribute written, and the attributes resourceHerokuAppRead writes.
NoAttrs == [name |-> "", config_vars |-> <<>>, written |-> FALSE,
            heroku_hostname |-> ""]
ReadAttrs(name, cvars) ==
    [name |-> name, config_vars |-> <<cvars>>, written |-> TRUE,
     heroku_hostname |-> name \o ".herokuapp.com"]

\* The config vars the remote service has.
RemoteVars == "A" :> "1"

\* func resourceHerokuAppRead(d, meta) error, with application.Update and
\* resource_heroku_app_retrieve: AppInfo and ConfigVarInfo are both called
\* with d.Id(), and the attributes are set when neither failed. The app
\* that AppInfo returns bears the name it was asked for.
resourceHerokuAppRead(data, infoOk, varsOk) ==
    LET calls == <<ClientCall("AppInfo", data.id, NoOpts, NoVars, infoOk,
                              IF infoOk THEN data.id ELSE ""),
                   ClientCall("ConfigVarInfo", data.id, NoOpts, NoVars,
                              varsOk, "")>>
    IN  IF infoOk /\ varsOk
        THEN Result([data EXCEPT !.attrs = ReadAttrs(data.id, RemoteVars)],
                    NoError, calls)
        ELSE Result(data, Error("Error retrieving app", Empty), calls)

\* A Create that goes on to update the config vars and to read whether or
\* not AppCreate succeeded.
resourceHerokuAppCreateNoReturn(data, create, updateOk, infoOk, varsOk) ==
    LET c1 == <<ClientCall("AppCreate", "", Opts(data.name.new, data.region,
                                                 data.stack),
                           NoVars, create.ok,
                           IF create.ok THEN create.name ELSE "")>>
        d1 == IF create.ok THEN [data EXCEPT !.id = create.name] ELSE data
        u  == IF d1.config_vars.new.isNil
              THEN [err |-> NoError, calls |-> <<>>]
              ELSE update_config_vars(d1.id, <<>>, d1.config_vars.new.list,
                                      updateOk)
        r  == resourceHerokuAppRead(d1, infoOk, varsOk)
    IN  IF u.err # NoError THEN Result(d1, u.err, c1 \o u.calls)
        ELSE Result(r.data, r.err, c1 \o u.calls \o r.calls)

\* func resourceHerokuAppCreate(d, meta) error: "create" is what AppCreate
\* returns, the other three say whether ConfigVarUpdate, AppInfo and
\* ConfigVarInfo succeed.
resourceHerokuAppCreate(data, create, updateOk, infoOk, varsOk) ==
    LET c1 == <<ClientCall("AppCreate", "", Opts(data.name.new, data.region,
                                                 data.stack),
                           NoVars, create.ok,
                           IF create.ok THEN create.name ELSE "")>>
        d1 == [data EXCEPT !.id = create.name]
        u  == IF d1.config_vars.new.isNil
              THEN [err |-> NoError, calls |-> <<>>]
              ELSE update_config_vars(d1.id, <<>>, d1.config_vars.new.list,
                                      updateOk)
        r  == resourceHerokuAppRead(d1, infoOk, varsOk)
    IN  IF ~create.ok THEN Result(data, Error("AppCreate error", Empty), c1)
        ELSE IF u.err # NoError THEN Result(d1, u.err, c1 \o u.calls)
        ELSE Result(r.data, r.err, c1 \o u.calls \o r.calls)

\* An Update that addresses the config-var update to the id it was given.
resourceHerokuAppUpdateOldId(data, rename, updateOk, infoOk, varsOk) ==
    LET hasName == data.name.old # data.name.new
        hasVars == data.config_vars.old # data.config_vars.new
        c1 == IF hasName
              THEN <<ClientCall("AppUpdate", data.id,
                                Opts(data.name.new, NilString, NilString),
                                NoVars, rename.ok,
                                IF rename.ok THEN rename.name ELSE "")>>
              ELSE <<>>
        d1 == IF hasName THEN [data EXCEPT !.id = rename.name] ELSE data
        u  == IF hasVars
              THEN update_config_vars(data.id, d1.config_vars.old.list,
                                      d1.config_vars.new.list, updateOk)
              ELSE [err |-> NoError, calls |-> <<>>]
        r  == resourceHerokuAppRead(d1, infoOk, varsOk)
    IN  IF hasName /\ data.name.new = NilString
        THEN Result(data, Error("panic", Empty), <<>>)
        ELSE IF hasName /\ ~rename.ok
        THEN Result(data, Error("AppUpdate error", Empty), c1)
        ELSE IF u.err # NoError THEN Result(d1, u.err, c1 \o u.calls)
        ELSE Result(r.data, r.err, c1 \o u.calls \o r.calls)

\* func resourceHerokuAppUpdate(d, meta) error: "rename" is what AppUpdate
\* returns. d.Get("name").(string) panics when Get returns nil.
resourceHerokuAppUpdate(data, rename, updateOk, infoOk, varsOk) ==
    LET hasName == data.name.old # data.name.new
        hasVars == data.config_vars.old # data.config_vars.new
        c1 == IF hasName
              THEN <<ClientCall("AppUpdate", data.id,
                                Opts(data.name.new, NilString, NilString),
                                NoVars, rename.ok,
                                IF rename.ok THEN rename.name ELSE "")>>
              ELSE <<>>
        d1 == IF hasName THEN [data EXCEPT !.id = rename.name] ELSE data
        u  == IF hasVars
              THEN update_config_vars(d1.id, d1.config_vars.old.list,
                                      d1.config_vars.new.list, updateOk)
              ELSE [err |-> NoError, calls |-> <<>>]
        r  == resourceHerokuAppRead(d1, infoOk, varsOk)
    IN  IF hasName /\ data.name.new = NilString
        THEN Result(data, Error("panic", Empty), <<>>)
        ELSE IF hasName /\ ~rename.ok
        THEN Result(data, Error("AppUpdate error", Empty), c1)
        ELSE IF u.err # NoError THEN Result(d1, u.err, c1 \o u.calls)
        ELSE Result(r.data, r.err, c1 \o u.calls \o r.calls)

\* A Delete that clears the id whether or not AppDelete succeeded.
resourceHerokuAppDeleteAlways(data, deleteOk) ==
    LET c1 == <<ClientCall("AppDelete", data.id, NoOpts, NoVars, deleteOk, "")>>
    IN  IF ~deleteOk
        THEN Result([data EXCEPT !.id = ""],
                    Error("Error deleting App", Empty), c1)
        ELSE Result([data EXCEPT !.id = ""], NoError, c1)

\* func resourceHerokuAppDelete(d, meta) error
resourceHerokuAppDelete(data, deleteOk) ==
    LET c1 == <<ClientCall("AppDelete", data.id, NoOpts, NoVars, deleteOk, "")>>
    IN  IF ~deleteOk THEN Result(data, Error("Error deleting App", Empty), c1)
        ELSE Result([data EXCEPT !.id = ""], NoError, c1)

\* An attribute as the state has it and as Get returns it.
Change(o, n) == [new |-> n, old |-> o]

\* What AppCreate and AppUpdate return: an error, or an app and its name.
AppReturns == [ok : BOOLEAN, name : AppNames]

\* The state of the callbacks: the callback that ran ("none" before), the
\* id of the ResourceData it was given, its error and its calls.
Ran(cb, id0, r) == [err |-> r.err, calls |-> r.calls, cb |-> cb, id0 |-> id0]

InitHeroku ==
    /\ \E id \in {""} \cup AppNames,
          name \in {Change(NilString, StringPtr("app1")),
                    Change(StringPtr("app1"), StringPtr("app1")),
                    Change(StringPtr("app1"), StringPtr("app2")),
                    Change(StringPtr("app1"), NilString)},
          o \in ConfigVarLists, n \in ConfigVarLists :
          d = ResourceData(id, name, Change(o, n),
                           StringPtr("us"), NilString, NoAttrs)
    /\ hk = Ran("none", "", Result(d, NoError, <<>>))
    /\ perms = Unused /\ listeners = Unused
    /\ pcn = Unused /\ config = Unused /\ validated = Unused
    /\ Schema = Unused /\ ResourcesMap = Unused /\ ConfigureFunc = Unused
    /\ meta = Unused /\ last = Unused
    /\ configureCalled = Unused /\ metaWrites = Unused

\* The callback cb runs on d and returns r.
Callback(cb, r) ==
    /\ hk.cb = "none"
    /\ d' = r.data
    /\ hk' = Ran(cb, d.id, r)
    /\ UNCHANGED <<provVars, configVars, awsVars>>

Create ==
    \E create \in AppReturns, updateOk, infoOk, varsOk \in BOOLEAN :
        Callback("Create", resourceHerokuAppCreate(d, create, updateOk,
                                                   infoOk, varsOk))

Read ==
    \E infoOk, varsOk \in BOOLEAN :
        Callback("Read", resourceHerokuAppRead(d, infoOk, varsOk))

Update ==
    \E rename \in AppReturns, updateOk, infoOk, varsOk \in BOOLEAN :
        Callback("Update", resourceHerokuAppUpdate(d, rename, updateOk,
                                                   infoOk, varsOk))

Delete ==
    \E deleteOk \in BOOLEAN :
        Callback("Delete", resourceHerokuAppDelete(d, deleteOk))

NextHeroku == Create \/ Read \/ Update \/ Delete

SpecHeroku == InitHeroku /\ [][NextHeroku]_vars

\* C10: when Create has run on a ResourceData with no id, the id is set if
\* and only if AppCreate succeeded, and then it is the name of the created
\* app, every later call is addressed to that name, and a later call that
\* failed makes Create return an error with the id still set; when
\* AppCreate failed, Create returns an error, the id is unset and AppCreate
\* is the only call made.
C10_CreateSetsId ==
    (hk.cb = "Create" /\ hk.id0 = "") =>
        /\ Len(hk.calls) >= 1
        /\ hk.calls[1].fn = "AppCreate"
        /\ (d.id # "") <=> hk.calls[1].ok
        /\ hk.calls[1].ok =>
              /\ d.id = hk.calls[1].app
              /\ \A i \in 2..Len(hk.calls) :
                    /\ hk.calls[i].fn \in {"ConfigVarUpdate", "AppInfo",
                                           "ConfigVarInfo"}
                    /\ hk.calls[i].id = hk.calls[1].app
              /\ (\E i \in 2..Len(hk.calls) : ~hk.calls[i].ok)
                    => hk.err # NoError
        /\ ~hk.calls[1].ok =>
              /\ hk.err # NoError
              /\ d.id = ""
              /\ Len(hk.calls) = 1

\* Create ran on a ResourceData with no id and with config vars, AppCreate
\* and ConfigVarUpdate succeeded, the Read failed, and the id is set.
C10_Witness ==
    /\ hk.cb = "Create"
    /\ hk.id0 = ""
    /\ Len(hk.calls) = 4
    /\ hk.calls[1].ok /\ hk.calls[2].ok /\ ~hk.calls[4].ok
    /\ hk.err # NoError
    /\ d.id = hk.calls[1].app

\* C11: when Delete has run on a ResourceData with an id, AppDelete is the
\* one call made and it is addressed to that id; the id is empty afterwards
\* if and only if AppDelete succeeded, and then no error is returned; when
\* AppDelete failed an error is returned and the id is the one Delete was
\* given.
C11_DeleteClearsId ==
    (hk.cb = "Delete" /\ hk.id0 # "") =>
        /\ Len(hk.calls) = 1
        /\ hk.calls[1].fn = "AppDelete"
        /\ hk.calls[1].id = hk.id0
        /\ (d.id = "") <=> hk.calls[1].ok
        /\ hk.calls[1].ok => hk.err = NoError
        /\ ~hk.calls[1].ok => (hk.err # NoError /\ d.id = hk.id0)

\* Delete ran on a ResourceData with an id, AppDelete failed, and the id is
\* still there.
C11_Witness ==
    /\ hk.cb = "Delete"
    /\ hk.id0 # ""
    /\ ~hk.calls[1].ok
    /\ hk.err.kind = "Error deleting App"
    /\ d.id = hk.id0

\* The names of the methods called, in the order of the calls.
CallNames(calls) == [i \in 1..Len(calls) |-> calls[i].fn]

\* C12: when Update has run, the calls made are a rename (only if name has
\* changed), then a config-var update (only if config_vars has changed),
\* then the two calls of Read, and a call is made only if every call before
\* it succeeded; unless Update panicked, each of the three steps is made
\* when its precondition holds and the calls before it succeeded. A failed
\* rename is the only call and leaves the id as it was, with an error
\* returned; after a successful rename the id is the name of the renamed
\* app and every later call is addressed to it; without a rename the id
\* stays and every call is addressed to it.
C12_UpdateOrder ==
    hk.cb = "Update" =>
        LET calls == hk.calls
            names == CallNames(calls)
            hasName == d.name.old # d.name.new
            hasVars == d.config_vars.old # d.config_vars.new
            renamed == names # <<>> /\ names[1] = "AppUpdate"
            allOk == \A i \in 1..Len(calls) : calls[i].ok
            rename == IF hasName THEN <<"AppUpdate">> ELSE <<>>
            update == IF hasVars THEN <<"ConfigVarUpdate">> ELSE <<>>
            read == <<"AppInfo", "ConfigVarInfo">>
        IN  /\ names \in {<<>>, <<"AppUpdate">>, <<"ConfigVarUpdate">>,
                          <<"AppUpdate", "ConfigVarUpdate">>,
                          <<"AppInfo", "ConfigVarInfo">>,
                          <<"AppUpdate", "AppInfo", "ConfigVarInfo">>,
                          <<"ConfigVarUpdate", "AppInfo", "ConfigVarInfo">>,
                          <<"AppUpdate", "ConfigVarUpdate", "AppInfo",
                            "ConfigVarInfo">>}
            /\ renamed => hasName
            /\ (\E i \in 1..Len(calls) : names[i] = "ConfigVarUpdate")
                  => hasVars
            /\ \A i \in 1..Len(calls) :
                  (~calls[i].ok /\ i < Len(calls))
                     => (names[i] = "AppInfo" /\ i + 1 = Len(calls))
            /\ hk.err.kind # "panic" =>
                  names = (IF renamed /\ ~calls[1].ok THEN rename
                           ELSE IF \E i \in 1..Len(calls) :
                                      /\ names[i] = "ConfigVarUpdate"
                                      /\ ~calls[i].ok
                           THEN rename \o update
                           ELSE rename \o update \o read)
            /\ ~allOk => hk.err # NoError
            /\ (renamed /\ ~calls[1].ok) => (Len(calls) = 1 /\ d.id = hk.id0)
            /\ renamed => calls[1].id = hk.id0
            /\ (renamed /\ calls[1].ok) =>
                  /\ d.id = calls[1].app
                  /\ \A i \in 2..Len(calls) : calls[i].id = calls[1].app
            /\ ~renamed =>
                  /\ d.id = hk.id0
                  /\ \A i \in 1..Len(calls) : calls[i].id = hk.id0

\* Update ran with name and config_vars changed, the rename succeeded and
\* gave the app another name than the id, and the config-var update and the
\* Read that followed were addressed to the new name.
C12_Witness ==
    /\ hk.cb = "Update"
    /\ CallNames(hk.calls)
          = <<"AppUpdate", "ConfigVarUpdate", "AppInfo", "ConfigVarInfo">>
    /\ hk.calls[1].ok
    /\ hk.calls[1].app # hk.id0
    /\ hk.calls[2].id = hk.calls[1].app
    /\ d.id = hk.calls[1].app

\* The keys of a list of config-var maps.
KeysOf(l) == UNION {DOMAIN l[i] : i \in 1..Len(l)}

\* The value of key k in the last map of l that has it.
LastValue(l, k) ==
    LET at == {i \in 1..Len(l) : k \in DOMAIN l[i]}
    IN  l[CHOOSE i \in at : \A j \in at : j <= i][k]

\* C13: the vars of every ConfigVarUpdate call have exactly the keys of the
\* old and the new maps it was made for (no old maps in Create); a key of
\* the new maps carries the value of the last new map that has it, and a
\* key of the old maps only carries nil.
C13_ConfigVarsSent ==
    \A i \in 1..Len(hk.calls) :
        hk.calls[i].fn = "ConfigVarUpdate" =>
            LET o == IF hk.cb = "Create" THEN <<>> ELSE d.config_vars.old.list
                n == d.config_vars.new.list
                sent == hk.calls[i].vars
            IN  /\ DOMAIN sent = KeysOf(o) \cup KeysOf(n)
                /\ \A k \in KeysOf(n) : sent[k] = StringPtr(LastValue(n, k))
                /\ \A k \in KeysOf(o) \ KeysOf(n) : sent[k] = NilString
                /\ \A k \in KeysOf(n) : sent[k] # NilString

\* Update sent config vars where one key is in the old maps only, one key
\* is in the old maps and in two new maps with different values, and one
\* key is in the new maps only.
C13_Witness ==
    /\ hk.cb = "Update"
    /\ \E i \in 1..Len(hk.calls) :
          /\ hk.calls[i].fn = "ConfigVarUpdate"
          /\ hk.calls[i].vars
                = ("A" :> StringPtr("2") @@ "B" :> StringPtr("1")
                   @@ "C" :> NilString)
    /\ d.config_vars.old.list = <<"C" :> "2", "A" :> "1">>
    /\ d.config_vars.new.list = <<"A" :> "1", "A" :> "2" @@ "B" :> "1">>

----------------------------------------------------------------------------
(* package aws: canonicaliseIPPerms and expandListeners *)

\* The largest number of rules given to canonicaliseIPPerms.
MaxPerms == 2

\* The protocols "tcp" and "udp", as Go strings.
Tcp == <<116, 99, 112>>
Udp == <<117, 100, 112>>

\* An ec2.UserSecurityGroup, by its Id.
UserSecurityGroup(id) == [Id |-> id]

\* An ec2.IPPerm.
IPPerm(protocol, fromPort, toPort, sourceIPs, sourceGroups) ==
    [Protocol |-> protocol, FromPort |-> fromPort, ToPort |-> toPort,
     SourceIPs |-> sourceIPs, SourceGroups |-> sourceGroups]

\* type ipPermKey struct
ipPermKey(protocol, fromPort, toPort) ==
    [Protocol |-> protocol, FromPort |-> fromPort, ToPort |-> toPort]

\* The key of a rule.
KeyOf(p) == ipPermKey(p.Protocol, p.FromPort, p.ToPort)

\* func (g sortableHosts) Less(i, j int) bool
sortableHostsLess(a, b) == StrLess(a, b)

\* func (g sortableGroups) Less(i, j int) bool
sortableGroupsLess(a, b) == StrLess(a.Id, b.Id)

\* func (s sortableRules) Less(i, j int) bool
sortableRulesLess(a, b) ==
    \/ StrLess(a.Protocol, b.Protocol)
    \/ a.FromPort < b.FromPort
    \/ a.ToPort < b.ToPort

\* Less of the sort.Interface named by kind.
Less(kind, a, b) ==
    CASE kind = "sortableHosts" -> sortableHostsLess(a, b)
      [] kind = "sortableGroups" -> sortableGroupsLess(a, b)
      [] kind = "sortableRules" -> sortableRulesLess(a, b)

\* The inner loop of the insertion sort of package sort: x, placed after the
\* sorted elements of data, is swapped with the element before it for as
\* long as it is less than that element.
RECURSIVE SwapDown(_, _, _)
SwapDown(kind, data, x) ==
    IF data # <<>> /\ Less(kind, x, data[Len(data)])
    THEN SwapDown(kind, SubSeq(data, 1, Len(data) - 1), x)
         \o <<data[Len(data)]>>
    ELSE data \o <<x>>

\* sort.Sort(data) for a slice this short: an insertion sort from the left.
RECURSIVE InsertionSort(_, _, _)
InsertionSort(kind, sorted, rest) ==
    IF rest = <<>> THEN sorted
    ELSE InsertionSort(kind, SwapDown(kind, sorted, Head(rest)), Tail(rest))

Sort(kind, data) == InsertionSort(kind, <<>>, data)

\* The first loop of canonicaliseIPPerms: the map "rules", with the sources
\* of every rule of the input appended to the rule of its key.
RECURSIVE MergeRules(_, _)
MergeRules(rules, input) ==
    IF input = <<>> THEN rules
    ELSE LET p == Head(input)
             key == KeyOf(p)
             rule == IF key \in DOMAIN rules THEN rules[key]
                     ELSE IPPerm(p.Protocol, p.FromPort, p.ToPort, <<>>, <<>>)
             merged == [rule EXCEPT
                           !.SourceGroups = @ \o p.SourceGroups,
                           !.SourceIPs = @ \o p.SourceIPs]
         IN  MergeRules((key :> merged) @@ rules, Tail(input))

\* func canonicaliseIPPerms(input []ec2.IPPerm) []ec2.IPPerm, where order
\* is the order in which the range over the map "rules" visits its keys.
canonicaliseIPPerms(input, order) ==
    LET rules == MergeRules(<<>>, input)
        res == [i \in 1..Len(order) |->
                   [rules[order[i]] EXCEPT
                       !.SourceIPs = Sort("sortableHosts", @),
                       !.SourceGroups = Sort("sortableGroups", @)]]
    IN  Sort("sortableRules", res)

\* The rules given to canonicaliseIPPerms.
PortRanges == {<<1, 4>>, <<2, 3>>, <<3, 3>>}

Sources ==
    {[ips |-> <<<<98>>>>, groups |-> <<>>],
     [ips |-> <<<<97>>>>, groups |-> <<UserSecurityGroup(<<103>>)>>]}

IPPermChoices ==
    {IPPerm(protocol, range[1], range[2], from.ips, from.groups) :
        protocol \in {Tcp, Udp}, range \in PortRanges, from \in Sources}

InitPerms ==
    /\ \E n \in 0..MaxPerms : \E input \in [1..n -> IPPermChoices] :
          perms = [input |-> input, outs |-> <<>>]
    /\ listeners = Unused
    /\ pcn = Unused /\ config = Unused /\ validated = Unused
    /\ Schema = Unused /\ ResourcesMap = Unused /\ ConfigureFunc = Unused
    /\ meta = Unused /\ last = Unused
    /\ configureCalled = Unused /\ metaWrites = Unused
    /\ d = Unused /\ hk = Unused

\* res := canonicaliseIPPerms(input), called twice on the same rules: they
\* may come in any order, and the map may be visited in any order.
CallCanonicaliseIPPerms ==
    \E p \in IterationOrders(1..Len(perms.input)) :
        LET input == [i \in 1..Len(p) |-> perms.input[p[i]]]
        IN  \E order \in IterationOrders({KeyOf(input[i]) :
                                            i \in 1..Len(input)}) :
               /\ Len(perms.outs) < 2
               /\ perms' = [perms EXCEPT
                               !.outs = Append(@, canonicaliseIPPerms(input,
                                                                      order))]
               /\ UNCHANGED <<listeners, provVars, configVars, herokuVars>>

NextPerms == CallCanonicaliseIPPerms

SpecPerms == InitPerms /\ [][NextPerms]_vars

\* The keys of the rules of a list, in the order of the list.
KeysIn(rules) == [i \in 1..Len(rules) |-> KeyOf(rules[i])]

\* C14: every output of canonicaliseIPPerms holds exactly one rule for
\* each key of the input, two outputs for the same rules have their rules
\* in the same order, and of two rules of an output never each is less
\* than the other.
C14_Deterministic ==
    /\ \A n \in 1..Len(perms.outs) :
          LET out == perms.outs[n]
          IN  /\ {KeyOf(out[i]) : i \in 1..Len(out)}
                    = {KeyOf(perms.input[i]) : i \in 1..Len(perms.input)}
              /\ \A i, j \in 1..Len(out) :
                    i # j => KeyOf(out[i]) # KeyOf(out[j])
              /\ \A i, j \in 1..Len(out) :
                    ~(/\ sortableRulesLess(out[i], out[j])
                      /\ sortableRulesLess(out[j], out[i]))
    /\ Len(perms.outs) = 2 => KeysIn(perms.outs[1]) = KeysIn(perms.outs[2])

\* The largest number of configured listeners.
MaxListeners == 2

\* What strconv.ParseInt returns: a number and an error.
Parsed(n, err) == [err |-> err, n |-> n]

SyntaxError(s) == Parsed(0, Error("strconv.ParseInt: invalid syntax", s))

\* The value of a byte as a digit: 0 to 9 for '0' to '9', from 10 on for
\* the letters of either case, and a value no base admits for the others.
DigitValue(c) ==
    IF c >= 48 /\ c <= 57 THEN c - 48
    ELSE IF c >= 97 /\ c <= 122 THEN c - 97 + 10
    ELSE IF c >= 65 /\ c <= 90 THEN c - 65 + 10
    ELSE 36

\* The digit loop of strconv.ParseUint: the number that the digits of s
\* denote after n in the base, or -1 when a byte is no digit of the base.
RECURSIVE ParseDigits(_, _, _)
ParseDigits(s, base, n) ==
    IF s = <<>> THEN n
    ELSE IF DigitValue(Head(s)) >= base THEN -1
    ELSE ParseDigits(Tail(s), base, n * base + DigitValue(Head(s)))

\* strconv.ParseUint(s, 0, 0) for a string that is not empty: the prefix
\* "0x" selects base 16 and the prefix "0" base 8, and -1 stands for a
\* syntax error. The strings here are too short to be out of range.
ParseUint(s) ==
    IF s = <<>> THEN -1
    ELSE IF s[1] = 48 /\ Len(s) > 1 /\ s[2] \in {120, 88}
    THEN IF Len(s) < 3 THEN -1 ELSE ParseDigits(SubSeq(s, 3, Len(s)), 16, 0)
    ELSE IF s[1] = 48 THEN ParseDigits(s, 8, 0)
    ELSE ParseDigits(s, 10, 0)

\* strconv.ParseInt(s, 0, 0): an optional sign, then ParseUint.
ParseInt(s) ==
    IF s = <<>> THEN SyntaxError(s)
    ELSE LET neg == s[1] = 45
             un == ParseUint(IF s[1] \in {43, 45} THEN Tail(s) ELSE s)
         IN  IF un = -1 THEN SyntaxError(s)
             ELSE Parsed(IF neg THEN -un ELSE un, NoError)

\* A configured listener: the map that flatmap.Expand gives.
ConfiguredListener(instancePort, instanceProtocol, lbPort, lbProtocol) ==
    [instance_port |-> instancePort, instance_protocol |-> instanceProtocol,
     lb_port |-> lbPort, lb_protocol |-> lbProtocol]

\* An elb.Listener.
Listener(instancePort, instanceProtocol, loadBalancerPort, protocol) ==
    [Protocol |-> protocol, InstancePort |-> instancePort,
     InstanceProtocol |-> instanceProtocol,
     LoadBalancerPort |-> loadBalancerPort]

\* What expandListeners returns: the listeners, or nil, and the error.
Expanded(out, err) == [out |-> out, err |-> err]

\* The loop of expandListeners from some configured listener on: err is
\* declared by the first ParseInt and assigned again by the second, so the
\* error looked at is that of lb_port.
RECURSIVE ExpandLoop(_, _)
ExpandLoop(done, configured) ==
    IF configured = <<>> THEN Expanded(List(done), NoError)
    ELSE LET newL == Head(configured)
             instancePort == ParseInt(newL.instance_port)
             lbPort == ParseInt(newL.lb_port)
             err == lbPort.err
             l == Listener(instancePort.n, newL.instance_protocol,
                           lbPort.n, newL.lb_protocol)
         IN  IF err # NoError THEN Expanded(NilList, err)
             ELSE ExpandLoop(Append(done, l), Tail(configured))

\* func expandListeners(configured []interface{}) ([]elb.Listener, error)
expandListeners(configured) == ExpandLoop(<<>>, configured)

\* The ports of the configured listeners: "80", "010", "0x1F", "+8", "" and
\* "8a".
PortStrings ==
    {<<56, 48>>, <<48, 49, 48>>, <<48, 120, 49, 70>>, <<43, 56>>, <<>>,
     <<56, 97>>}

ListenerChoices ==
    {ConfiguredListener(instancePort, "http", lbPort, "tcp") :
        instancePort \in PortStrings, lbPort \in PortStrings}

NotExpanded == Expanded(NilList, NoError)

InitListeners ==
    /\ \E n \in 0..MaxListeners : \E configured \in [1..n -> ListenerChoices] :
          listeners = [returned |-> FALSE, result |-> NotExpanded,
                       configured |-> configured]
    /\ perms = Unused
    /\ pcn = Unused /\ config = Unused /\ validated = Unused
    /\ Schema = Unused /\ ResourcesMap = Unused /\ ConfigureFunc = Unused
    /\ meta = Unused /\ last = Unused
    /\ configureCalled = Unused /\ metaWrites = Unused
    /\ d = Unused /\ hk = Unused

\* listeners, err := expandListeners(configured)
CallExpandListeners ==
    /\ ~listeners.returned
    /\ listeners' = [listeners EXCEPT
                        !.returned = TRUE,
                        !.result = expandListeners(listeners.configured)]
    /\ UNCHANGED <<perms, provVars, configVars, herokuVars>>

NextListeners == CallExpandListeners

SpecListeners == InitListeners /\ [][NextListeners]_vars

\* C15: when expandListeners has returned, it has returned an error and no
\* list if the instance_port or the lb_port of some configured listener
\* does not parse as an integer, and otherwise no error and a list with one
\* listener for each configured listener, in the same order, with the ports
\* parsed.
C15_ErrorOnBadPort ==
    listeners.returned =>
        LET configured == listeners.configured
            parses(s) == ParseInt(s).err = NoError
            bad == \E i \in 1..Len(configured) :
                      \/ ~parses(configured[i].instance_port)
                      \/ ~parses(configured[i].lb_port)
            res == listeners.result
        IN  /\ bad => (res.err # NoError /\ res.out.isNil)
            /\ ~bad =>
                  /\ res.err = NoError
                  /\ ~res.out.isNil
                  /\ Len(res.out.list) = Len(configured)
                  /\ \A i \in 1..Len(configured) :
                        res.out.list[i]
                           = Listener(ParseInt(configured[i].instance_port).n,
                                      configured[i].instance_protocol,
                                      ParseInt(configured[i].lb_port).n,
                                      configured[i].lb_protocol)
====
